---------------------------- MODULE Spec2Model ----------------------------
(***************************************************************************)
(* Model of src/src/input/visit.ts: the walk that turns the types of a     *)
(* type-checking oracle into TypeModel nodes and fills the Ref Registry    *)
(* (context.refs).                                                         *)
(*                                                                         *)
(* The oracle is a fixed finite program (Program, which Ty holds in every  *)
(* state): every oracle type is a record of the fields visit.ts reads      *)
(* from it.  The walk is synchronous and depth first: each entry point is  *)
(* one action; the functions of visit.ts are operators that thread the     *)
(* context (the registry and the bookkeeping of the invocation) through    *)
(* their calls in the order the code evaluates them.                       *)
(***************************************************************************)
EXTENDS Integers, Sequences, FiniteSets, TLC

VARIABLES
  Ty,      \* context.checker: the type information of the program visited
  refs,    \* context.refs: name -> TypeModel node
  builds,  \* history: how many times the body of each name was built
  last,    \* history: the last entry-point invocation and what it did
  steps,   \* number of entry-point invocations so far
  flags,   \* the predicates of the type handed to includeBasic (SpecBasic)
  basic    \* the kind includeBasic returned for flags (SpecBasic)

vars == <<Ty, refs, builds, last, steps, flags, basic>>

\* Number of entry-point invocations of one run that are explored.
MaxOps == 2

\* Number of predicates that hold together of one type handed to includeBasic.
MaxFlags == 3

\* Number.MAX_SAFE_INTEGER: "no limit" for maxTypes (any value above every
\* argument list does; TLC integers are 32 bit).
MAX_SAFE_INTEGER == 2147483647

(***************************************************************************)
(* TypeModel nodes.  Every node has the same fields; kind "" is JavaScript *)
(* undefined.  kids holds the child nodes that have a field of their own   *)
(* in the code (child, value, valueType, returnType, parameters, ...).     *)
(* via is history: the function that built a ref node.                     *)
(***************************************************************************)
N0 ==
  [kind |-> "", refName |-> "", types |-> <<>>, ext |-> "", props |-> <<>>,
   exts |-> <<>>, impls |-> <<>>, kids |-> <<>>, id |-> 0, name |-> "",
   via |-> ""]

Undef == N0

Kind(k) == [N0 EXCEPT !.kind = k]

\* The placeholder of makeRef and makeAliasRef: a ref to the name itself.
Placeholder(name) ==
  [N0 EXCEPT !.kind = "ref", !.refName = name, !.via = "placeholder"]

\* The kinds of node that have a `types` field.
TypesKinds ==
  {"ref", "alias", "interface", "class", "function", "constructor",
   "tuple", "union", "intersection"}

(***************************************************************************)
(* The oracle: the program under extraction.                               *)
(***************************************************************************)
\* A syntax node of a type: nk is "ident" (a type reference by identifier,
\* with its text), "infer", "keyof", "union" (with its member types ts),
\* "other" or "none" (no node); t is the type the checker gives for it.
TN(nk, text, t, ts) == [nk |-> nk, text |-> text, t |-> t, ts |-> ts]

T0 ==
  [preds |-> {}, objectFlags |-> "", sym |-> "", alias |-> "",
   origin |-> "local", anonObj |-> FALSE, target |-> "",
   typeArguments |-> <<>>, hasAliasArgs |-> FALSE,
   aliasTypeArguments |-> <<>>, typeParameters |-> <<>>,
   declParams |-> <<>>, hasDecls |-> TRUE, declKind |-> "",
   props |-> <<>>, statics |-> <<>>, ctors |-> <<>>, heritage |-> <<>>,
   types |-> <<>>, callSigs |-> <<>>, dflt |-> "", keyofOf |-> "",
   declType |-> "", aliasNode |-> TN("other", "", "", <<>>),
   hidden |-> "", numIndex |-> "", strIndex |-> "",
   cons |-> [ck |-> "none", t |-> ""],
   mapped |-> [index |-> "", optional |-> FALSE, value |-> ""]]

\* A property symbol: its identity id, the type of the symbol, whether it has
\* declarations, the type node of its declaration, whether that declaration
\* is a method signature (then with its parameters and type parameters).
P0 == [name |-> "", id |-> 0, t |-> "", hasDecls |-> TRUE,
       node |-> TN("none", "", "", <<>>), method |-> FALSE,
       params |-> <<>>, typeParameters |-> <<>>]

Prop(name, id, t) == [P0 EXCEPT !.name = name, !.id = id, !.t = t]

Iface(name, props, heritage) ==
  [T0 EXCEPT !.preds = {"Object"}, !.objectFlags = "Interface", !.sym = name,
             !.declKind = "interface", !.props = props,
             !.heritage = heritage]

Class(name, props, heritage) ==
  [T0 EXCEPT !.preds = {"Object", "Reference"},
             !.objectFlags = "Class|Reference", !.sym = name,
             !.target = name, !.declKind = "class", !.props = props,
             !.heritage = heritage]

Extends(t) == [token |-> "extends", items |-> <<[t |-> t, isIdent |-> TRUE, text |-> t]>>]

\* interface List<T, U = string> { next: List<number, boolean> }
ListProps == <<Prop("next", 501, "List<number,boolean>")>>

ListDecl ==
  [Iface("List", ListProps, <<>>) EXCEPT
     !.preds = {"Object", "Reference"}, !.objectFlags = "Interface|Reference",
     !.target = "List", !.typeParameters = <<"T", "U">>,
     !.typeArguments = <<"T", "U">>, !.declParams = <<"T", "U">>]

ListOf(args) == [ListDecl EXCEPT !.typeArguments = args]

Sig(tps, params, ret) == [typeParameters |-> tps, params |-> params, ret |-> ret]

Param(name, node) == [name |-> name, spread |-> FALSE, optional |-> FALSE, node |-> node]

Ident(text, t) == TN("ident", text, t, <<>>)

Other(t) == TN("other", "", t, <<>>)

AliasDeclOf(name, tps, node) ==
  [T0 EXCEPT !.sym = name, !.declKind = "alias", !.typeParameters = tps,
             !.declParams = tps, !.declType = node.t, !.aliasNode = node]

Program ==
  ( "string"  :> [T0 EXCEPT !.preds = {"String"}]
 \* the error type: what the checker answers for a location it is not given
 @@ "any"     :> [T0 EXCEPT !.preds = {"Any"}]
 @@ "number"  :> [T0 EXCEPT !.preds = {"Number"}]
 @@ "boolean" :> [T0 EXCEPT !.preds = {"Boolean"}]
 \* a template literal type: no classifier of visit.ts knows it
 @@ "Weird"   :> T0
 @@ "T"       :> [T0 EXCEPT !.preds = {"TypeParameter"}, !.sym = "T",
                            !.declKind = "typeParam"]
 @@ "U"       :> [T0 EXCEPT !.preds = {"TypeParameter"}, !.sym = "U",
                            !.declKind = "typeParam", !.dflt = "string"]
 \* interface Node { next: Node }
 @@ "Node"    :> Iface("Node", <<Prop("next", 101, "Node")>>, <<>>)
 \* interface A { b: B }   interface B { a: A }
 @@ "A"       :> Iface("A", <<Prop("b", 111, "B")>>, <<>>)
 @@ "B"       :> Iface("B", <<Prop("a", 112, "A")>>, <<>>)
 \* interface Base { a: string }   interface Derived extends Base { b: number }
 @@ "Base"    :> Iface("Base", <<Prop("a", 201, "string")>>, <<>>)
 @@ "Derived" :> Iface("Derived", <<Prop("a", 201, "string"),
                                    Prop("b", 202, "number")>>,
                       <<Extends("Base")>>)
 \* class CBase { a: string }   class CDerived extends CBase { b: number }
 @@ "CBase"   :> Class("CBase", <<Prop("a", 301, "string")>>, <<>>)
 @@ "CDerived" :> Class("CDerived", <<Prop("a", 301, "string"),
                                      Prop("b", 302, "number")>>,
                        <<Extends("CBase")>>)
 \* import { XBase } from 'lib'   interface XDerived extends XBase { b: number }
 @@ "XBase"   :> [Iface("XBase", <<Prop("a", 401, "string")>>, <<>>)
                    EXCEPT !.origin = "lib"]
 @@ "XDerived" :> Iface("XDerived", <<Prop("a", 401, "string"),
                                      Prop("b", 402, "number")>>,
                        <<Extends("XBase")>>)
 \* interface XDeep extends XDerived { c: number }
 @@ "XDeep"   :> Iface("XDeep", <<Prop("a", 401, "string"),
                                  Prop("b", 402, "number"),
                                  Prop("c", 403, "number")>>,
                       <<Extends("XDerived")>>)
 @@ "List"    :> ListDecl
 @@ "List<number,string>"  :> ListOf(<<"number", "string">>)
 @@ "List<number,boolean>" :> ListOf(<<"number", "boolean">>)
 \* type Tree = { child: Tree }
 @@ "Tree"    :> [T0 EXCEPT !.preds = {"Object"}, !.objectFlags = "Anonymous",
                            !.anonObj = TRUE, !.sym = "__type",
                            !.alias = "Tree",
                            !.props = <<Prop("child", 601, "Tree")>>]
 @@ "decl:Tree" :> AliasDeclOf("Tree", <<>>, Other("Tree"))
 \* type Id = Node
 @@ "decl:Id" :> AliasDeclOf("Id", <<>>, Ident("Node", "Node"))
 \* type Key = `k${string}`
 @@ "decl:Key" :> AliasDeclOf("Key", <<>>, Other("Weird"))
 \* declare function f(): typeof f
 @@ "typeof f" :> [T0 EXCEPT !.preds = {"Object"}, !.objectFlags = "Anonymous",
                             !.anonObj = TRUE, !.sym = "f",
                             !.declKind = "function",
                             !.callSigs = <<Sig(<<>>, <<>>, "typeof f")>>]
 \* declare function g<T>(l: List<number, string>, x: T): Tree
 @@ "typeof g" :> [T0 EXCEPT !.preds = {"Object"}, !.objectFlags = "Anonymous",
                             !.anonObj = TRUE, !.sym = "g",
                             !.declKind = "function",
                             !.callSigs =
                               <<Sig(<<"T">>,
                                     <<Param("l", Ident("List", "List<number,string>")),
                                       Param("x", Ident("T", "T"))>>,
                                     "Tree")>>]
 \* interface Bad { ok: Node; p: Record<'k', number>['k'] }: p has no declaration
 @@ "Bad"     :> Iface("Bad", <<Prop("ok", 701, "Node"),
                                [Prop("p", 702, "number") EXCEPT !.hasDecls = FALSE]>>,
                       <<>>)
 \* interface Broken { p: Record<'k', number>['k'] }   type Wrap = { x: Broken }
 @@ "Broken"  :> Iface("Broken",
                       <<[Prop("p", 801, "number") EXCEPT !.hasDecls = FALSE]>>,
                       <<>>)
 @@ "Wrap"    :> [T0 EXCEPT !.preds = {"Object"}, !.objectFlags = "Anonymous",
                            !.anonObj = TRUE, !.sym = "__type",
                            !.alias = "Wrap",
                            !.props = <<Prop("x", 811, "Broken")>>]
 @@ "decl:Wrap" :> AliasDeclOf("Wrap", <<>>, Other("Wrap"))
 \* string | number | boolean   and   [string, number, boolean]
 @@ "Union3"  :> [T0 EXCEPT !.preds = {"Union"},
                            !.types = <<"string", "number", "boolean">>]
 @@ "Tuple3"  :> [T0 EXCEPT !.preds = {"Object", "Tuple", "Reference"},
                            !.objectFlags = "Reference", !.target = "Tuple3",
                            !.typeArguments = <<"string", "number", "boolean">>]
 \* Array<Node> of the global scope
 @@ "Array<Node>" :> [Iface("Array", <<>>, <<>>) EXCEPT
                        !.preds = {"Object", "Reference"},
                        !.objectFlags = "Interface|Reference",
                        !.origin = "global", !.target = "Array<Node>",
                        !.typeParameters = <<"T">>, !.declParams = <<"T">>,
                        !.typeArguments = <<"Node">>] )

TypeIds == DOMAIN Ty

(***************************************************************************)
(* Helpers imported from ../helpers (not part of visit.ts): each reads one *)
(* fact of the oracle type.                                                *)
(***************************************************************************)
isObjectType(t) == "Object" \in Ty[t].preds

isReferenceType(t) == "Reference" \in Ty[t].preds

isTupleType(t) == "Tuple" \in Ty[t].preds

isIndexType(t) == "IndexedAccess" \in Ty[t].preds

isAnonymousObject(t) == Ty[t].anonObj

isAnonymous(name) == name \in {"__type", "__object", "__function"}

isGlobal(t) == Ty[t].sym # "" /\ Ty[t].origin = "global"

isBaseLib(t) == Ty[t].sym # "" /\ Ty[t].origin = "baselib"

getLib(t) == IF Ty[t].sym # "" /\ Ty[t].origin = "lib" THEN "lib" ELSE ""

\* createBinding(context, lib, name) of ./utils: the binding name of an import.
createBinding(lib, name) == name

getGlobalName(t) == Ty[t].sym

(***************************************************************************)
(* The context threaded through the walk: the registry, the failure of the *)
(* invocation ("" none, "throw" an exception, "diverge" a recursion that   *)
(* re-enters itself with the same arguments and registry), and history.    *)
(***************************************************************************)
Ctx(r, b) ==
  [refs |-> r, err |-> "", stack |-> {}, building |-> <<>>, built |-> b,
   norm |-> {}, ev |-> {}]

Ok(c) == c.err = ""

Throw(c) == IF Ok(c) THEN [c EXCEPT !.err = "throw"] ELSE c

Diverge(c) == IF Ok(c) THEN [c EXCEPT !.err = "diverge"] ELSE c

R(c, n) == [c |-> c, n |-> n]

RL(c, ns) == [c |-> c, ns |-> ns]

\* r with r[k] = v
Put(r, k, v) == (k :> v) @@ r

\* context.refs[name] = node (nothing is written once the invocation failed)
SetRef(c, name, node) ==
  IF Ok(c) THEN [c EXCEPT !.refs = Put(@, name, node)] ELSE c

InSeq(x, s) == \E i \in 1..Len(s) : s[i] = x

\* History: the construction of the body of `name` starts at `site`.
BeginBuild(c, name, site) ==
  IF Ok(c)
  THEN [c EXCEPT !.ev = @ \cup {[e |-> "build", name |-> name, site |-> site,
                                  present |-> name \in DOMAIN c.refs,
                                  nested |-> InSeq(name, c.building)]},
                 !.building = Append(@, name),
                 !.built = Put(@, name, IF name \in DOMAIN @ THEN @[name] + 1 ELSE 1)]
  ELSE c

EndBuild(c, name) ==
  IF Ok(c) THEN [c EXCEPT !.building = SubSeq(@, 1, Len(@) - 1)] ELSE c

(***************************************************************************)
(* getDefaultTypeId, normalizeTypeParameters                               *)
(***************************************************************************)
\* The id of the declared default of a type parameter ("" is undefined).
getDefaultTypeId(tp) == Ty[tp].dflt

\* decl?.typeParameters?.map(t => getDefaultTypeId(context, t)) ?? []
RECURSIVE DefaultTypeIds(_)
DefaultTypeIds(tps) ==
  IF tps = <<>> THEN <<>>
  ELSE <<getDefaultTypeId(Head(tps))>> \o DefaultTypeIds(Tail(tps))

Pop(s) == IF s = <<>> THEN s ELSE SubSeq(s, 1, Len(s) - 1)

At(s, i) == IF i \in 1..Len(s) THEN s[i] ELSE ""

\* while (types.length > maxTypes) types.pop()
Truncate(types, maxTypes) ==
  IF Len(types) > maxTypes THEN SubSeq(types, 1, maxTypes) ELSE types

\* for (let i = typeParameterIds.length; i--; ) { ... types.pop() }
\* i is the 1-based position; the loop starts at Len(typeParameterIds).
RECURSIVE TrimDefaults(_, _, _, _)
TrimDefaults(types, typeParameterIds, typeArgumentIds, i) ==
  IF i = 0 THEN types
  ELSE LET id == typeParameterIds[i]
       IN IF id = "" \/ id # At(typeArgumentIds, i) THEN types
          ELSE TrimDefaults(Pop(types), typeParameterIds, typeArgumentIds, i - 1)

maxTypesOf(r, refName) ==
  IF refName \in DOMAIN r /\ r[refName].kind \in TypesKinds
  THEN Len(r[refName].types) ELSE MAX_SAFE_INTEGER

typeArgumentIdsOf(t) ==
  IF Ty[t].hasAliasArgs THEN Ty[t].aliasTypeArguments ELSE Ty[t].typeArguments

\* normalizeTypeParameters(context, type, decl, types, refName); declParams is
\* decl?.typeParameters.  The call is recorded in the history set norm.
normalizeTypeParameters(c, t, declParams, types, refName) ==
  LET maxTypes == maxTypesOf(c.refs, refName)
      typeParameterIds == DefaultTypeIds(declParams)
      typeArgumentIds == typeArgumentIdsOf(t)
      cut == Truncate(types, maxTypes)
      out == TrimDefaults(cut, typeParameterIds, typeArgumentIds, Len(typeParameterIds))
      call == [refName |-> refName, nparams |-> Len(declParams),
               defaults |-> typeParameterIds, args |-> typeArgumentIds,
               supplied |-> Len(types), cut |-> Len(cut), out |-> Len(out),
               placeholder |-> refName \in DOMAIN c.refs
                                 /\ c.refs[refName] = Placeholder(refName)]
  IN RL(IF Ok(c) THEN [c EXCEPT !.norm = @ \cup {call}] ELSE c, out)

(***************************************************************************)
(* includeBasic: the classification.  p is the set of the flags and        *)
(* predicates that hold of the type.                                       *)
(***************************************************************************)
\* includeBasic with the test of TypeFlags.String moved in front of the
\* tests of the literal types.
BasicKindStringFirst(p) ==
  IF "Any" \in p THEN "any"
  ELSE IF "Unknown" \in p THEN "unknown"
  ELSE IF "String" \in p THEN "string"
  ELSE IF "StringLiteral" \in p THEN "literal"
  ELSE IF "NumberLiteral" \in p THEN "literal"
  ELSE IF "BooleanLiteral" \in p THEN "literal"
  ELSE IF "EnumLiteral" \in p /\ "Union" \in p THEN "enumLiteral"
  ELSE IF "Enum" \in p /\ "Union" \in p THEN "enum"
  ELSE IF "BigIntLiteral" \in p THEN "bigintLiteral"
  ELSE IF "Boolean" \in p THEN "boolean"
  ELSE IF "Number" \in p THEN "number"
  ELSE IF "BigInt" \in p THEN "bigint"
  ELSE IF "ESSymbol" \in p THEN "esSymbol"
  ELSE IF "UniqueESSymbol" \in p THEN "uniqueEsSymbol"
  ELSE IF "Void" \in p THEN "void"
  ELSE IF "Undefined" \in p THEN "undefined"
  ELSE IF "Null" \in p THEN "null"
  ELSE IF "Never" \in p THEN "never"
  ELSE IF "Conditional" \in p THEN "conditional"
  ELSE IF "Substitution" \in p THEN "substitution"
  ELSE IF "NonPrimitive" \in p THEN "nonPrimitive"
  ELSE ""

BasicKind(p) ==
  IF "Any" \in p THEN "any"
  ELSE IF "Unknown" \in p THEN "unknown"
  ELSE IF "StringLiteral" \in p THEN "literal"
  ELSE IF "NumberLiteral" \in p THEN "literal"
  ELSE IF "BooleanLiteral" \in p THEN "literal"
  ELSE IF "EnumLiteral" \in p /\ "Union" \in p THEN "enumLiteral"
  ELSE IF "Enum" \in p /\ "Union" \in p THEN "enum"
  ELSE IF "BigIntLiteral" \in p THEN "bigintLiteral"
  ELSE IF "String" \in p THEN "string"
  ELSE IF "Boolean" \in p THEN "boolean"
  ELSE IF "Number" \in p THEN "number"
  ELSE IF "BigInt" \in p THEN "bigint"
  ELSE IF "ESSymbol" \in p THEN "esSymbol"
  ELSE IF "UniqueESSymbol" \in p THEN "uniqueEsSymbol"
  ELSE IF "Void" \in p THEN "void"
  ELSE IF "Undefined" \in p THEN "undefined"
  ELSE IF "Null" \in p THEN "null"
  ELSE IF "Never" \in p THEN "never"
  ELSE IF "Conditional" \in p THEN "conditional"
  ELSE IF "Substitution" \in p THEN "substitution"
  ELSE IF "NonPrimitive" \in p THEN "nonPrimitive"
  ELSE ""

(***************************************************************************)
(* The walk.                                                               *)
(***************************************************************************)
allowedBaseTypes == {"object", "class"}

isClassOrObject(node) == node.kind # "" /\ node.kind \in allowedBaseTypes

Lookup(r, name) == IF name \in DOMAIN r THEN r[name] ELSE Undef

PropIds(props) == {props[i].id : i \in 1..Len(props)}

\* getAllPropIds(context, types): the ids as a set (the code only tests
\* membership).  r is context.refs.
RECURSIVE getAllPropIds(_, _)
getAllPropIds(r, types) ==
  UNION { LET ref == types[i]
              baseType == Lookup(r, ref.refName)
          IN IF isClassOrObject(baseType)
             THEN (PropIds(baseType.props) \ {0}) \cup getAllPropIds(r, baseType.exts)
             ELSE IF ref.ext # "" THEN PropIds(Ty[ref.ext].props)
             ELSE {}
          : i \in 1..Len(types) }

\* props.filter(prop => !targets.includes(prop.id || prop.target?.id))
RECURSIVE NotInherited(_, _)
NotInherited(props, targets) ==
  IF props = <<>> THEN <<>>
  ELSE (IF Head(props).id \in targets THEN <<>> ELSE <<Head(props)>>)
       \o NotInherited(Tail(props), targets)

\* The functions of visit.ts call each other through Call, the one recursive
\* operator of the walk: Call(f, c, args) is the call f(c, ...args) of the
\* function named f (its definition follows the functions).
RECURSIVE Call(_, _, _)

\* types.map(t => includeType(context, t))
IncludeTypes(c, ts) ==
  IF ts = <<>> \/ ~Ok(c) THEN RL(c, <<>>)
  ELSE LET h == Call("includeType", c, <<Head(ts)>>)
           r == Call("IncludeTypes", h.c, <<Tail(ts)>>)
       IN IF Ok(h.c) /\ Ok(r.c) THEN RL(r.c, <<h.n>> \o r.ns) ELSE RL(r.c, <<>>)

getTypeArguments(c, t) == Call("IncludeTypes", c, <<Ty[t].typeArguments>>)

getTypeParameters(c, tps) ==
  IF tps = <<>> \/ ~Ok(c) THEN RL(c, <<>>)
  ELSE LET h == Call("includeTypeParameter", c, <<Head(tps)>>)
           r == Call("getTypeParameters", h.c, <<Tail(tps)>>)
       IN IF Ok(h.c) /\ Ok(r.c) THEN RL(r.c, <<h.n>> \o r.ns) ELSE RL(r.c, <<>>)

getKeyOfType(c, t) ==
  LET v == Call("includeType", c, <<t>>)
  IN IF Ok(v.c) THEN R(v.c, [Kind("prefix") EXCEPT !.name = "keyof", !.kids = <<v.n>>])
     ELSE v

\* getUnion with the members visited from the last to the first.
getUnionReversed(c, ts) ==
  LET m == Call("IncludeTypes", c, <<[i \in 1..Len(ts) |-> ts[Len(ts) + 1 - i]]>>)
  IN IF Ok(m.c) THEN R(m.c, [Kind("union") EXCEPT !.types = m.ns])
     ELSE R(m.c, Undef)

getUnion(c, ts) ==
  LET m == Call("IncludeTypes", c, <<ts>>)
  IN IF Ok(m.c) THEN R(m.c, [Kind("union") EXCEPT !.types = m.ns])
     ELSE R(m.c, Undef)

includeNode(c, node) ==
  IF node.nk = "keyof" THEN Call("getKeyOfType", c, <<node.t>>)
  ELSE IF node.nk = "union" THEN Call("getUnion", c, <<node.ts>>)
  ELSE R(c, Undef)

\* type.aliasSymbol && (!type.symbol || type.aliasSymbol !== type.symbol)
isAliasOf(t) == Ty[t].alias # "" /\ (Ty[t].sym = "" \/ Ty[t].alias # Ty[t].sym)

getTypeModel(c, t, name) ==
  LET ext == Call("includeExternal", c, <<t>>)
  IN CASE ~Ok(c) -> R(c, Undef)
       [] Ok(c) /\ name = "" -> Call("includeAnonymous", c, <<t>>)
       [] Ok(c) /\ name # "" /\ isAliasOf(t) -> Call("makeAliasRef", c, <<t, name>>)
       [] Ok(c) /\ name # "" /\ ~isAliasOf(t) ->
            IF ext.n # Undef \/ ~Ok(ext.c) THEN ext
            ELSE IF ~isAnonymous(name) /\ ~isAnonymousObject(t)
            THEN Call("makeRef", ext.c, <<t, name>>)
            ELSE Call("includeAnonymous", ext.c, <<t>>)

getParameterType(c, node) ==
  IF ~Ok(c) THEN R(c, Undef)
  ELSE IF node.nk = "ident" THEN Call("getTypeModel", c, <<node.t, node.text>>)
  ELSE IF node.nk = "infer"
  THEN LET p == Call("includeType", c, <<node.t>>)
       IN IF Ok(p.c) THEN R(p.c, [Kind("infer") EXCEPT !.kids = <<p.n>>]) ELSE p
  ELSE LET n == Call("includeNode", c, <<node>>)
       IN IF ~Ok(n.c) \/ n.n # Undef THEN n
          ELSE Call("includeAnonymous", n.c, <<node.t>>)

getFunctionParameters(c, params) ==
  IF params = <<>> \/ ~Ok(c) THEN RL(c, <<>>)
  ELSE LET v == Call("getParameterType", c, <<Head(params).node>>)
           h == [Kind("parameter") EXCEPT !.name = Head(params).name, !.kids = <<v.n>>]
           r == Call("getFunctionParameters", v.c, <<Tail(params)>>)
       IN IF Ok(v.c) /\ Ok(r.c) THEN RL(r.c, <<h>> \o r.ns) ELSE RL(r.c, <<>>)

getFunctionType(c, sig) ==
  LET tp == Call("getTypeParameters", c, <<sig.typeParameters>>)
      ps == Call("getFunctionParameters", tp.c, <<sig.params>>)
      rt == Call("includeType", ps.c, <<sig.ret>>)
  IN IF /\ Ok(tp.c)
        /\ Ok(ps.c)
        /\ Ok(rt.c)
     THEN R(rt.c, [Kind("function") EXCEPT !.types = tp.ns, !.kids = ps.ns \o <<rt.n>>])
     ELSE R(rt.c, Undef)

GetFunctionTypes(c, sigs) ==
  IF sigs = <<>> \/ ~Ok(c) THEN RL(c, <<>>)
  ELSE LET h == Call("getFunctionType", c, <<Head(sigs)>>)
           r == Call("GetFunctionTypes", h.c, <<Tail(sigs)>>)
       IN IF Ok(h.c) /\ Ok(r.c) THEN RL(r.c, <<h.n>> \o r.ns) ELSE RL(r.c, <<>>)

\* getPropValue and getPropType
getPropType(c, prop) ==
  IF ~Ok(c) \/ ~prop.hasDecls THEN R(Throw(c), Undef)
  ELSE LET n == Call("includeNode", c, <<prop.node>>)
           type == IF n.n # Undef \/ ~Ok(n.c) THEN n
                   ELSE Call("includeType", n.c, <<prop.t>>)
           ps == IF prop.method
                 THEN Call("getFunctionParameters", type.c, <<prop.params>>)
                 ELSE RL(type.c, <<>>)
           tp == IF prop.method
                 THEN Call("getTypeParameters", ps.c, <<prop.typeParameters>>)
                 ELSE RL(ps.c, <<>>)
           valueType ==
             IF prop.method
             THEN [Kind("function") EXCEPT !.types = tp.ns, !.kids = ps.ns \o <<type.n>>]
             ELSE type.n
       IN IF Ok(type.c) /\ Ok(tp.c)
          THEN R(tp.c, [Kind("prop") EXCEPT !.name = prop.name, !.id = prop.id,
                                            !.kids = <<valueType>>])
          ELSE R(tp.c, Undef)

GetPropTypes(c, props) ==
  IF props = <<>> \/ ~Ok(c) THEN RL(c, <<>>)
  ELSE LET h == Call("getPropType", c, <<Head(props)>>)
           r == Call("GetPropTypes", h.c, <<Tail(props)>>)
       IN IF Ok(h.c) /\ Ok(r.c) THEN RL(r.c, <<h.n>> \o r.ns) ELSE RL(r.c, <<>>)

includeHiddenAnonymous(c, t) ==
  IF Ok(c) /\ isAnonymous(Ty[t].sym) /\ Ty[t].hidden # ""
  THEN Call("includeType", c, <<Ty[t].hidden>>)
  ELSE R(c, Undef)

includeExternal(c, t) ==
  IF ~Ok(c) THEN R(c, Undef)
  ELSE IF isGlobal(t)
  THEN Call("includeRef", c, <<t, getGlobalName(t), "", "includeExternal">>)
  ELSE IF isBaseLib(t)
  THEN Call("includeRef", c, <<t, Ty[t].sym, t, "includeExternal">>)
  ELSE IF getLib(t) # ""
  THEN IF isAnonymous(Ty[t].sym) THEN Call("includeHiddenAnonymous", c, <<t>>)
       ELSE IF ~isAnonymousObject(t)
       THEN Call("includeRef", c,
                 <<t, createBinding(getLib(t), Ty[t].sym), t, "includeExternal">>)
       ELSE R(c, Undef)
  ELSE R(c, Undef)

\* A call that re-enters itself with the same type and the same registry
\* while it is still on the stack repeats itself forever: it diverges.
includeType(c, t) ==
  IF ~Ok(c) \/ <<"includeType", t, c.refs>> \in c.stack THEN R(Diverge(c), Undef)
  ELSE LET c1 == [c EXCEPT !.stack = @ \cup {<<"includeType", t, c.refs>>}]
           r == IF Ty[t].keyofOf # ""
                THEN Call("getKeyOfType", c1, <<Ty[t].keyofOf>>)
                ELSE Call("getTypeModel", c1,
                          <<t, IF Ty[t].alias # "" THEN Ty[t].alias ELSE Ty[t].sym>>)
       IN [r EXCEPT !.c.stack = c.stack]

makeAliasRef(c, t, name0) ==
  IF ~Ok(c) THEN R(c, Undef)
  ELSE LET decl == "decl:" \o Ty[t].alias
           ext == Call("includeExternal", c, <<decl>>)
           isExt == ext.n.kind = "ref"
           name == IF isExt THEN ext.n.refName ELSE name0
           fresh == ~isExt /\ name \notin DOMAIN ext.c.refs
           c1 == SetRef(ext.c, name, Placeholder(name))
           c2 == BeginBuild(c1, name, "makeAliasRef")
           tp == IF fresh THEN Call("getTypeParameters", c2, <<Ty[decl].typeParameters>>)
                 ELSE RL(ext.c, <<>>)
           ch == IF fresh THEN Call("includeAnonymous", tp.c, <<Ty[decl].declType>>)
                 ELSE R(ext.c, Undef)
           built ==
             IF fresh
             THEN EndBuild(SetRef(ch.c, name,
                                  [Kind("alias") EXCEPT !.types = tp.ns,
                                                        !.kids = <<ch.n>>]),
                           name)
             ELSE ext.c
           types == Call("IncludeTypes", built, <<Ty[t].aliasTypeArguments>>)
           nz == normalizeTypeParameters(types.c, t, Ty[decl].declParams, types.ns, name)
       IN IF /\ Ok(ext.c)
             /\ Ok(tp.c)
             /\ Ok(ch.c)
             /\ Ok(types.c)
          THEN R(nz.c, [Kind("ref") EXCEPT !.types = nz.ns, !.refName = name,
                                           !.via = IF isExt THEN "makeAliasRef:external"
                                                   ELSE "makeAliasRef"])
          ELSE R(types.c, Undef)

\* makeRef(context, type, name, cb); cb is includeNamed at its one call site.
makeRef(c, t, name) ==
  IF name \in DOMAIN c.refs THEN Call("includeRef", c, <<t, name, "", "makeRef">>)
  ELSE LET c1 == SetRef(c, name, Placeholder(name))
           type == IF isObjectType(t) /\ isReferenceType(t) THEN Ty[t].target ELSE t
           c2 == BeginBuild(c1, name, "makeRef")
           b == Call("includeNamed", c2, <<type>>)
       IN IF Ok(b.c)
          THEN Call("includeRef", EndBuild(SetRef(b.c, name, b.n), name),
                    <<t, name, "", "makeRef">>)
          ELSE R(b.c, Undef)

includeRef(c, t, refName, external, via) ==
  IF ~Ok(c) \/ (Ty[t].sym # "" /\ ~Ty[t].hasDecls) THEN R(Throw(c), Undef)
  ELSE LET types == getTypeArguments(c, t)
           nz == normalizeTypeParameters(types.c, t, Ty[t].declParams, types.ns, refName)
       IN IF Ok(types.c)
          THEN R(nz.c, [Kind("ref") EXCEPT !.types = nz.ns, !.refName = refName,
                                           !.ext = external, !.via = via])
          ELSE R(types.c, Undef)

\* type.types.map(t => includeMember(context, t))
IncludeMembers(c, ts) ==
  IF ts = <<>> \/ ~Ok(c) THEN RL(c, <<>>)
  ELSE IF Ty[Head(ts)].sym = "" THEN RL(Throw(c), <<>>)
  ELSE LET v == Call("includeAnonymous", c, <<Head(ts)>>)
           h == [Kind("member") EXCEPT !.name = Ty[Head(ts)].sym, !.kids = <<v.n>>]
           r == Call("IncludeMembers", v.c, <<Tail(ts)>>)
       IN IF Ok(v.c) /\ Ok(r.c) THEN RL(r.c, <<h>> \o r.ns) ELSE RL(r.c, <<>>)

includeBasic(c, t) ==
  LET k == BasicKind(Ty[t].preds)
  IN IF ~Ok(c) \/ k = "" THEN R(c, Undef)
     ELSE IF k \in {"enumLiteral", "enum"}
     THEN IF Ty[t].sym = "" THEN R(Throw(c), Undef)
          ELSE LET m == Call("IncludeMembers", c, <<Ty[t].types>>)
               IN IF Ok(m.c) THEN R(m.c, [Kind(k) EXCEPT !.kids = m.ns])
                  ELSE R(m.c, Undef)
     ELSE IF k = "conditional"
     THEN LET m == Call("IncludeTypes", c, <<Ty[t].types>>)
          IN IF Ok(m.c) THEN R(m.c, [Kind(k) EXCEPT !.kids = m.ns])
             ELSE R(m.c, Undef)
     ELSE IF k = "substitution"
     THEN LET v == Call("includeType", c, <<Ty[t].target>>)
          IN IF Ok(v.c) THEN R(v.c, [Kind(k) EXCEPT !.kids = <<v.n>>]) ELSE v
     ELSE R(c, Kind(k))

includeIndex(c, t) ==
  IF t = "" THEN R(c, Undef)
  ELSE IF Ty[t].preds = {"TypeParameter"} THEN Call("includeType", c, <<t>>)
  ELSE IF Ty[t].preds = {"Index"} THEN Call("getKeyOfType", c, <<Ty[t].target>>)
  ELSE R(c, Undef)

includeCombinator(c, t) ==
  IF ~Ok(c) THEN R(c, Undef)
  ELSE IF isTupleType(t)
  THEN LET m == Call("IncludeTypes", c, <<Ty[t].typeArguments>>)
       IN IF Ok(m.c) THEN R(m.c, [Kind("tuple") EXCEPT !.types = m.ns])
          ELSE R(m.c, Undef)
  ELSE IF isReferenceType(t)
  THEN IF Ty[t].sym = "" THEN R(Throw(c), Undef)
       ELSE LET m == getTypeArguments(c, t)
            IN IF Ok(m.c)
               THEN R(m.c, [Kind("ref") EXCEPT !.refName = Ty[t].sym, !.types = m.ns,
                                               !.ext = t, !.via = "includeCombinator"])
               ELSE R(m.c, Undef)
  ELSE IF "Union" \in Ty[t].preds THEN Call("getUnion", c, <<Ty[t].types>>)
  ELSE IF "Intersection" \in Ty[t].preds
  THEN LET m == Call("IncludeTypes", c, <<Ty[t].types>>)
       IN IF Ok(m.c) THEN R(m.c, [Kind("intersection") EXCEPT !.types = m.ns])
          ELSE R(m.c, Undef)
  ELSE IF isIndexType(t)
  THEN LET i == Call("includeIndex", c, <<At(Ty[t].types, 1)>>)
           o == IF At(Ty[t].types, 2) = "" THEN R(i.c, Undef)
                ELSE Call("includeType", i.c, <<At(Ty[t].types, 2)>>)
       IN IF Ok(i.c) /\ Ok(o.c)
          THEN R(o.c, [Kind("indexedAccess") EXCEPT !.kids = <<i.n, o.n>>])
          ELSE R(o.c, Undef)
  ELSE R(c, Undef)

includeConstraint(c, tp) ==
  LET k == Ty[tp].cons
  IN IF k.ck = "keyof" THEN Call("getKeyOfType", c, <<k.t>>)
     ELSE IF k.ck \in {"node", "implicit"} THEN Call("includeType", c, <<k.t>>)
     ELSE R(c, Undef)

\* includeTypeParameter with includeConstraint and includeDefaultTypeArgument
includeTypeParameter(c, tp) ==
  IF ~Ok(c) \/ Ty[tp].sym = "" THEN R(c, Undef)
  ELSE LET parameter == [Kind("ref") EXCEPT !.refName = Ty[tp].sym,
                                            !.via = "includeTypeParameter"]
           k == Call("includeConstraint", c, <<tp>>)
           d == IF Ty[tp].dflt # "" THEN Call("includeType", k.c, <<Ty[tp].dflt>>)
                ELSE R(k.c, Undef)
       IN IF Ok(k.c) /\ Ok(d.c)
          THEN R(d.c, [Kind("typeParameter") EXCEPT !.kids = <<parameter, k.n, d.n>>])
          ELSE R(d.c, Undef)

HeritageItems(c, items) ==
  IF items = <<>> \/ ~Ok(c) THEN RL(c, <<>>)
  ELSE LET it == Head(items)
           res == Call("includeType", c, <<it.t>>)
           h == IF res.n.kind # "ref" /\ it.isIdent
                THEN [Kind("ref") EXCEPT !.refName = it.text, !.ext = it.t,
                                         !.via = "includeInheritedTypes"]
                ELSE res.n
           r == Call("HeritageItems", res.c, <<Tail(items)>>)
       IN IF Ok(res.c) /\ Ok(r.c) THEN RL(r.c, <<h>> \o r.ns) ELSE RL(r.c, <<>>)

\* The loop over decl.heritageClauses; the result holds extends and implements.
HeritageClauses(rc, clauses) ==
  IF clauses = <<>> \/ ~Ok(rc.c) THEN rc
  ELSE LET cl == Head(clauses)
           items == Call("HeritageItems", rc.c, <<cl.items>>)
           nx == [c |-> items.c,
                  exts |-> IF cl.token = "extends" THEN rc.exts \o items.ns ELSE rc.exts,
                  impls |-> IF cl.token = "implements" THEN rc.impls \o items.ns
                            ELSE rc.impls]
       IN Call("HeritageClauses", nx, <<Tail(clauses)>>)

includeInheritedTypes(c, t) ==
  IF Ok(c) /\ Ty[t].sym # "" /\ Ty[t].hasDecls /\ Ty[t].declKind \in {"interface", "class"}
  THEN Call("HeritageClauses", [c |-> c, exts |-> <<>>, impls |-> <<>>],
            <<Ty[t].heritage>>)
  ELSE [c |-> c, exts |-> <<>>, impls |-> <<>>]

IndexNode(key, value) ==
  [Kind("index") EXCEPT
     !.kids = <<[Kind("parameter") EXCEPT !.kids = <<Kind(key)>>], value>>]

includeStandardObject(c, t) ==
  LET inheritedTypes == Call("includeInheritedTypes", c, <<t>>)
      inherited == inheritedTypes.exts \o inheritedTypes.impls
      targets == getAllPropIds(inheritedTypes.c.refs, inherited)
      props == NotInherited(Ty[t].props, targets)
      pd == Call("GetPropTypes", inheritedTypes.c, <<props>>)
      numberIndexType == Ty[t].numIndex
      stringIndexType == Ty[t].strIndex
      inh(ix, f) == \E i \in 1..Len(inherited) :
                      inherited[i].ext # "" /\ Ty[inherited[i].ext][f] = ix
      ni == IF numberIndexType # "" /\ ~inh(numberIndexType, "numIndex")
            THEN LET v == Call("includeType", pd.c, <<numberIndexType>>)
                 IN RL(v.c, <<IndexNode("number", v.n)>>)
            ELSE RL(pd.c, <<>>)
      si == IF stringIndexType # "" /\ ~inh(stringIndexType, "strIndex")
            THEN LET v == Call("includeType", ni.c, <<stringIndexType>>)
                 IN RL(v.c, <<IndexNode("string", v.n)>>)
            ELSE RL(ni.c, <<>>)
      cs == Call("GetFunctionTypes", si.c, <<Ty[t].callSigs>>)
      tp == Call("getTypeParameters", cs.c, <<Ty[t].typeParameters>>)
  IN IF /\ Ok(inheritedTypes.c)
        /\ Ok(pd.c)
        /\ Ok(ni.c)
        /\ Ok(si.c)
        /\ Ok(cs.c)
        /\ Ok(tp.c)
     THEN R(tp.c, [Kind("interface") EXCEPT
                     !.exts = inheritedTypes.exts,
                     !.props = pd.ns \o ni.ns \o si.ns \o cs.ns,
                     !.types = tp.ns])
     ELSE R(tp.c, Undef)

RECURSIVE Retag(_, _)
Retag(ns, k) ==
  IF ns = <<>> THEN <<>>
  ELSE <<[Head(ns) EXCEPT !.kind = k]>> \o Retag(Tail(ns), k)

includeClassObject(c, t) ==
  LET obj == Call("includeStandardObject", c, <<t>>)
      inheritedTypes == Call("includeInheritedTypes", obj.c, <<t>>)
      st == Call("GetPropTypes", inheritedTypes.c, <<Ty[t].statics>>)
      ct == Call("GetFunctionTypes", st.c, <<Ty[t].ctors>>)
  IN IF /\ Ok(obj.c)
        /\ Ok(inheritedTypes.c)
        /\ Ok(st.c)
        /\ Ok(ct.c)
     THEN R(ct.c, [obj.n EXCEPT !.props = @ \o st.ns \o Retag(ct.ns, "constructor"),
                                !.impls = inheritedTypes.impls,
                                !.kind = "class"])
     ELSE R(ct.c, Undef)

includeMappedObject(c, t) ==
  LET k == Call("includeConstraint", c, <<Ty[t].mapped.index>>)
      v == Call("includeType", k.c, <<Ty[t].mapped.value>>)
  IN IF Ok(k.c) /\ Ok(v.c)
     THEN R(v.c, [Kind("interface") EXCEPT
                    !.kids = <<[Kind("mapped") EXCEPT
                                  !.name = Ty[Ty[t].mapped.index].sym,
                                  !.kids = <<k.n, v.n>>]>>])
     ELSE R(v.c, Undef)

includeObject(c, t) ==
  CASE ~Ok(c) \/ ~isObjectType(t) -> R(c, Undef)
    [] Ok(c) /\ isObjectType(t) /\ Ty[t].objectFlags = "Mapped" ->
         Call("includeMappedObject", c, <<t>>)
    [] Ok(c) /\ isObjectType(t) /\ Ty[t].objectFlags = "Class|Reference" ->
         Call("includeClassObject", c, <<t>>)
    [] Ok(c) /\ isObjectType(t)
             /\ Ty[t].objectFlags \notin {"Mapped", "Class|Reference"} ->
         Call("includeStandardObject", c, <<t>>)

includeReference(c, t) ==
  IF Ok(c) /\ Ty[t].declKind = "alias"
  THEN LET tp == Call("getTypeParameters", c, <<Ty[t].typeParameters>>)
           ch == Call("getParameterType", tp.c, <<Ty[t].aliasNode>>)
       IN IF Ok(tp.c) /\ Ok(ch.c)
          THEN R(ch.c, [Kind("alias") EXCEPT !.types = tp.ns, !.kids = <<ch.n>>])
          ELSE R(ch.c, Undef)
  ELSE R(c, Undef)

\* includeBasic(context, type) ?? includeObject(context, type) ??
\* includeReference(context, type)
includeNamed(c, t) ==
  LET b == Call("includeBasic", c, <<t>>)
      o == Call("includeObject", b.c, <<t>>)
  IN IF b.n # Undef \/ ~Ok(b.c) THEN b
     ELSE IF o.n # Undef \/ ~Ok(o.c) THEN o
     ELSE Call("includeReference", o.c, <<t>>)

includeAnonymous(c, t) ==
  IF ~Ok(c) \/ <<"includeAnonymous", t, c.refs>> \in c.stack THEN R(Diverge(c), Undef)
  ELSE LET c1 == [c EXCEPT !.stack = @ \cup {<<"includeAnonymous", t, c.refs>>}]
           b == Call("includeBasic", c1, <<t>>)
           cb == Call("includeCombinator", b.c, <<t>>)
           h == Call("includeHiddenAnonymous", cb.c, <<t>>)
           o == Call("includeObject", h.c, <<t>>)
           r == IF b.n # Undef \/ ~Ok(b.c) THEN b
                ELSE IF cb.n # Undef \/ ~Ok(cb.c) THEN cb
                ELSE IF h.n # Undef \/ ~Ok(h.c) THEN h
                ELSE IF o.n # Undef \/ ~Ok(o.c) THEN o
                ELSE R(o.c, Kind("unidentified"))
       IN [r EXCEPT !.c.stack = c.stack]

(***************************************************************************)
(* The exported declarations of the program and the entry points.          *)
(***************************************************************************)
\* The exported interfaces and classes handed to includeExportedType.
ExportedTypes ==
  {"Node", "A", "Derived", "CDerived", "XDerived", "XDeep", "List", "Bad"}

\* The exported type alias declarations.
ExportedAliases == {"decl:Tree", "decl:Id", "decl:Key", "decl:Wrap"}

\* The exported variables: name -> the type of the declaration.
\*   const x: List<number, string>;  const u: string | number | boolean;
\*   const v: [string, number, boolean];  const w: XBase;  const n: Node[];
\*   const t: Wrap
ExportedVariables ==
  ( "x" :> "List<number,string>" @@ "u" :> "Union3" @@ "v" :> "Tuple3"
 @@ "w" :> "XBase" @@ "n" :> "Array<Node>" @@ "t" :> "Wrap" )

\* The exported function declarations (the type at the declaration).
ExportedFunctions == {"typeof f", "typeof g"}

\* The default exports: the symbol at node.expression (symFlags "" is no
\* symbol), its declaration, the type at node.expression, whether the node is
\* a function declaration, and node.name ("" is undefined: an ExportAssignment
\* has no name).
DefaultExports ==
  ( "alias"    :> [symFlags |-> "TypeAlias", symName |-> "Tree", decl |-> "decl:Tree",
                   type |-> "Tree", isFunctionDeclaration |-> FALSE, nodeName |-> ""]
 @@ "function" :> [symFlags |-> "Function", symName |-> "g", decl |-> "typeof g",
                   type |-> "typeof g", isFunctionDeclaration |-> FALSE, nodeName |-> ""]
 @@ "variable" :> [symFlags |-> "Variable", symName |-> "x", decl |-> "x",
                   type |-> "List<number,string>", isFunctionDeclaration |-> FALSE,
                   nodeName |-> ""]
 @@ "expression" :> [symFlags |-> "", symName |-> "", decl |-> "",
                     type |-> "Union3", isFunctionDeclaration |-> FALSE, nodeName |-> ""]
 @@ "functionDeclaration" :>
                  [symFlags |-> "", symName |-> "", decl |-> "typeof g",
                   type |-> "any", isFunctionDeclaration |-> TRUE, nodeName |-> ""] )

includeExportedType(c, t) ==
  IF Ty[t].sym = "" THEN Throw(c)
  ELSE LET node == Call("includeType", c, <<t>>)
       IN IF node.n.kind # "ref" THEN SetRef(node.c, Ty[t].sym, node.n) ELSE node.c

includeExportedTypeAlias(c, variable) ==
  LET name == Ty[variable].sym
      c1 == BeginBuild(c, name, "includeExportedTypeAlias")
      types == Call("getTypeParameters", c1, <<Ty[variable].typeParameters>>)
      child == Call("getParameterType", types.c, <<Ty[variable].aliasNode>>)
  IN EndBuild(SetRef(child.c, name,
                     [Kind("alias") EXCEPT !.types = types.ns, !.kids = <<child.n>>]),
              name)

includeExportedVariable(c, name) ==
  LET value == Call("includeType", c, <<ExportedVariables[name]>>)
  IN SetRef(value.c, name, [Kind("const") EXCEPT !.kids = <<value.n>>])

includeExportedFunction(c, func, name) ==
  IF Ty[func].callSigs = <<>> THEN Throw(c)
  ELSE LET funcType == Call("getFunctionType", c, <<Ty[func].callSigs[1]>>)
       IN SetRef(funcType.c, name, funcType.n)

DefaultNode(value) == [Kind("default") EXCEPT !.kids = <<value>>]

includeDefaultExport(c, node) ==
  IF node.symFlags # ""
  THEN LET c1 ==
             IF node.symFlags = "TypeAlias"
             THEN Call("includeExportedTypeAlias", c, <<node.decl>>)
             ELSE IF node.symFlags = "Function"
             THEN IF node.nodeName = "" THEN Throw(c)
                  ELSE Call("includeExportedFunction", c, <<node.decl, node.nodeName>>)
             ELSE Call("includeExportedVariable", c, <<node.decl>>)
           value == Call("includeRef", c1,
                         <<node.type, node.symName, "", "includeDefaultExport">>)
       IN IF Ok(c1) /\ Ok(value.c)
          THEN SetRef(value.c, "default", DefaultNode(value.n))
          ELSE value.c
  ELSE LET c1 ==
             IF node.isFunctionDeclaration
             THEN Call("includeExportedFunction", c, <<node.decl, "_default">>)
             ELSE LET a == Call("includeAnonymous", c, <<node.type>>)
                  IN SetRef(a.c, "_default", [Kind("const") EXCEPT !.kids = <<a.n>>])
           value == Call("includeRef", c1,
                         <<node.type, "_default", "", "includeDefaultExport">>)
       IN IF Ok(c1) /\ Ok(value.c)
          THEN SetRef(value.c, "default", DefaultNode(value.n))
          ELSE value.c

(***************************************************************************)
(* Call(f, c, args): the call f(c, ...args).                               *)
(***************************************************************************)
Call(f, c, a) ==
  CASE f = "includeType" -> includeType(c, a[1])
    [] f = "getTypeModel" -> getTypeModel(c, a[1], a[2])
    [] f = "IncludeTypes" -> IncludeTypes(c, a[1])
    [] f = "includeRef" -> includeRef(c, a[1], a[2], a[3], a[4])
    [] f = "includeExternal" -> includeExternal(c, a[1])
    [] f = "makeRef" -> makeRef(c, a[1], a[2])
    [] f = "makeAliasRef" -> makeAliasRef(c, a[1], a[2])
    [] f = "includeAnonymous" -> includeAnonymous(c, a[1])
    [] f = "includeNamed" -> includeNamed(c, a[1])
    [] f = "includeBasic" -> includeBasic(c, a[1])
    [] f = "includeCombinator" -> includeCombinator(c, a[1])
    [] f = "includeObject" -> includeObject(c, a[1])
    [] f = "includeStandardObject" -> includeStandardObject(c, a[1])
    [] f = "includeClassObject" -> includeClassObject(c, a[1])
    [] f = "includeMappedObject" -> includeMappedObject(c, a[1])
    [] f = "includeInheritedTypes" -> includeInheritedTypes(c, a[1])
    [] f = "HeritageItems" -> HeritageItems(c, a[1])
    [] f = "HeritageClauses" -> HeritageClauses(c, a[1])
    [] f = "getPropType" -> getPropType(c, a[1])
    [] f = "GetPropTypes" -> GetPropTypes(c, a[1])
    [] f = "getFunctionType" -> getFunctionType(c, a[1])
    [] f = "GetFunctionTypes" -> GetFunctionTypes(c, a[1])
    [] f = "getFunctionParameters" -> getFunctionParameters(c, a[1])
    [] f = "getParameterType" -> getParameterType(c, a[1])
    [] f = "includeTypeParameter" -> includeTypeParameter(c, a[1])
    [] f = "getTypeParameters" -> getTypeParameters(c, a[1])
    [] f = "includeHiddenAnonymous" -> includeHiddenAnonymous(c, a[1])
    [] f = "includeNode" -> includeNode(c, a[1])
    [] f = "getUnion" -> getUnion(c, a[1])
    [] f = "getKeyOfType" -> getKeyOfType(c, a[1])
    [] f = "includeConstraint" -> includeConstraint(c, a[1])
    [] f = "IncludeMembers" -> IncludeMembers(c, a[1])
    [] f = "includeReference" -> includeReference(c, a[1])
    [] f = "includeIndex" -> includeIndex(c, a[1])
    [] f = "includeExportedType" -> includeExportedType(c, a[1])
    [] f = "includeExportedTypeAlias" -> includeExportedTypeAlias(c, a[1])
    [] f = "includeExportedVariable" -> includeExportedVariable(c, a[1])
    [] f = "includeExportedFunction" -> includeExportedFunction(c, a[1], a[2])
    [] f = "includeDefaultExport" -> includeDefaultExport(c, a[1])

(***************************************************************************)
(* The extraction run: a sequence of entry-point invocations on one        *)
(* registry.                                                               *)
(***************************************************************************)
EmptyRefs == <<>>

NoLast ==
  [op |-> "", arg |-> "", err |-> "", ev |-> {}, norm |-> {}, building |-> <<>>]

\* The state after the invocation `op` on `arg` ended in context c.
Done(op, arg, c) ==
  /\ refs' = c.refs
  /\ builds' = c.built
  /\ last' = [op |-> op, arg |-> arg, err |-> c.err, ev |-> c.ev, norm |-> c.norm,
               building |-> c.building]
  /\ steps' = steps + 1
  /\ UNCHANGED <<Ty, flags, basic>>

Init ==
  /\ Ty = Program
  /\ refs = EmptyRefs
  /\ builds = <<>>
  /\ last = NoLast
  /\ steps = 0
  /\ flags = {}
  /\ basic = ""

IncludeExportedType ==
  /\ steps < MaxOps
  /\ \E t \in ExportedTypes :
       Done("includeExportedType", t,
            Call("includeExportedType", Ctx(refs, builds), <<t>>))

IncludeExportedTypeAlias ==
  /\ steps < MaxOps
  /\ \E d \in ExportedAliases :
       Done("includeExportedTypeAlias", d,
            Call("includeExportedTypeAlias", Ctx(refs, builds), <<d>>))

IncludeExportedVariable ==
  /\ steps < MaxOps
  /\ \E v \in DOMAIN ExportedVariables :
       Done("includeExportedVariable", v,
            Call("includeExportedVariable", Ctx(refs, builds), <<v>>))

IncludeExportedFunction ==
  /\ steps < MaxOps
  /\ \E f \in ExportedFunctions :
       Done("includeExportedFunction", f,
            Call("includeExportedFunction", Ctx(refs, builds), <<f, Ty[f].sym>>))

IncludeDefaultExport ==
  /\ steps < MaxOps
  /\ \E d \in DOMAIN DefaultExports :
       Done("includeDefaultExport", d,
            Call("includeDefaultExport", Ctx(refs, builds), <<DefaultExports[d]>>))

Next ==
  \/ IncludeExportedType
  \/ IncludeExportedTypeAlias
  \/ IncludeExportedVariable
  \/ IncludeExportedFunction
  \/ IncludeDefaultExport

Spec == Init /\ [][Next]_vars

(***************************************************************************)
(* includeBasic as a function of the flags and predicates of a type: the   *)
(* type gains one predicate at a time and is classified again.             *)
(***************************************************************************)
Predicates ==
  {"Any", "Unknown", "StringLiteral", "NumberLiteral", "BooleanLiteral",
   "EnumLiteral", "Enum", "Union", "BigIntLiteral", "String", "Boolean",
   "Number", "BigInt", "ESSymbol", "UniqueESSymbol", "Void", "Undefined",
   "Null", "Never", "Conditional", "Substitution", "NonPrimitive"}

InitBasic ==
  /\ Ty = Program
  /\ refs = EmptyRefs
  /\ builds = <<>>
  /\ last = NoLast
  /\ steps = 0
  /\ flags = {}
  /\ basic = BasicKind({})

Classify ==
  /\ Cardinality(flags) < MaxFlags
  /\ \E f \in Predicates \ flags :
       /\ flags' = flags \cup {f}
       /\ basic' = BasicKind(flags')
  /\ UNCHANGED <<Ty, refs, builds, last, steps>>

NextBasic == Classify

SpecBasic == InitBasic /\ [][NextBasic]_vars

(***************************************************************************)
(* The registry as a graph: the nodes reachable from its entries.          *)
(***************************************************************************)
Range(s) == {s[i] : i \in 1..Len(s)}

Children(n) ==
  Range(n.types) \cup Range(n.props) \cup Range(n.exts) \cup Range(n.impls)
    \cup Range(n.kids)

RECURSIVE NodesOf(_)
NodesOf(n) == {n} \cup UNION {NodesOf(ch) : ch \in Children(n)}

RegistryNodes == UNION {NodesOf(refs[k]) : k \in DOMAIN refs}

\* The last entry-point invocation returned (it raised nothing).
Completed == steps > 0 /\ last.err = ""

(***************************************************************************)
(* C1  Cycle termination.  Every entry-point invocation terminates: none   *)
(* re-enters the walk of a type it is already walking with the registry    *)
(* unchanged.                                                              *)
(***************************************************************************)
C1_CycleTermination == last.err # "diverge"

(***************************************************************************)
(* C2  Placeholder before descent.  Wherever the construction of the body  *)
(* of a name begins (makeRef, makeAliasRef, includeExportedTypeAlias) the  *)
(* name is already a key of the registry, and the name is not already      *)
(* under construction (no second construction is started).                 *)
(***************************************************************************)
C2_PlaceholderBeforeDescent == \A e \in last.ev : e.present /\ ~e.nested

(***************************************************************************)
(* C3  No dangling refs.  When the invocation completed without error,     *)
(* every ref node reachable from a registry entry names a key of the       *)
(* registry.                                                               *)
(***************************************************************************)
C3_NoDanglingRefs ==
  Completed =>
    \A n \in RegistryNodes : n.kind = "ref" => n.refName \in DOMAIN refs

(***************************************************************************)
(* C4  Inheritance dedup.  The registered node of a type declared with a   *)
(* heritage clause lists none of the members of its bases, lists every     *)
(* member of its own, and has a ref to each base among its extends.        *)
(***************************************************************************)
BaseTypes(t) ==
  UNION { {cl.items[i].t : i \in 1..Len(cl.items)} : cl \in Range(Ty[t].heritage) }

BaseMemberIds(t) == UNION {PropIds(Ty[b].props) : b \in BaseTypes(t)}

C4_InheritanceDedup ==
  \A k \in DOMAIN refs \cap TypeIds :
    (refs[k].kind \in {"interface", "class"} /\ Ty[k].heritage # <<>>) =>
      LET emitted == PropIds(refs[k].props)
      IN /\ emitted \cap BaseMemberIds(k) = {}
         /\ (PropIds(Ty[k].props) \ BaseMemberIds(k)) \subseteq emitted
         /\ \A b \in BaseTypes(k) :
              \E e \in Range(refs[k].exts) : e.kind = "ref" /\ e.refName = Ty[b].sym

(***************************************************************************)
(* C5  Generic default trimming.  Every call of normalizeTypeParameters    *)
(* that is handed one argument per declared type parameter returns the     *)
(* arguments without exactly the maximal trailing run of arguments equal   *)
(* to the declared default of their position.                              *)
(***************************************************************************)
RECURSIVE TrailingDefaults(_, _, _)
TrailingDefaults(defaults, args, i) ==
  IF i = 0 THEN 0
  ELSE IF defaults[i] = "" \/ defaults[i] # args[i] THEN 0
  ELSE 1 + TrailingDefaults(defaults, args, i - 1)

C5_DefaultTrimming ==
  \A n \in last.norm :
    (n.nparams > 0 /\ n.supplied = n.nparams /\ Len(n.args) = n.nparams) =>
      n.out = n.supplied - TrailingDefaults(n.defaults, n.args, n.nparams)

(***************************************************************************)
(* C6  Registered exactly once.  Over the run, the body of each name is    *)
(* built at most once.                                                     *)
(***************************************************************************)
C6_RegisteredOnce == \A n \in DOMAIN builds : builds[n] <= 1

(***************************************************************************)
(* C7  Unsupported constructs degrade to `unidentified`.  After a          *)
(* successful invocation every registry entry holds a node (never          *)
(* undefined).                                                             *)
(***************************************************************************)
C7_Unidentified == Completed => \A k \in DOMAIN refs : refs[k].kind # ""

(***************************************************************************)
(* C8  No live oracle handle in the output.  When the invocation           *)
(* completed, no ref node reachable from the registry carries an           *)
(* `external` oracle type.                                                 *)
(***************************************************************************)
C8_NoExternalHandle ==
  Completed => \A n \in RegistryNodes : n.kind = "ref" => n.ext = ""

(***************************************************************************)
(* C9  Default export root.  An invocation of includeDefaultExport, in     *)
(* each of its cases, returns with the entry `default` of kind `default`   *)
(* whose value is a ref to the key under which the call registered the     *)
(* underlying entry (the name of the symbol, or `_default`).               *)
(***************************************************************************)
UnderlyingName(d) ==
  IF DefaultExports[d].symFlags # "" THEN DefaultExports[d].symName ELSE "_default"

C9_DefaultRoot ==
  last.op = "includeDefaultExport" =>
    /\ last.err = ""
    /\ "default" \in DOMAIN refs
    /\ refs["default"].kind = "default"
    /\ LET value == refs["default"].kids[1]
       IN /\ value.kind = "ref"
          /\ value.refName = UnderlyingName(last.arg)
          /\ value.refName \in DOMAIN refs

(***************************************************************************)
(* C10  Classifier priority.  includeBasic returns the kind of the first   *)
(* category that matches, in the order any, unknown, string literal,       *)
(* number literal, boolean literal, enum-literal union, enum union, bigint *)
(* literal, string, boolean, number, bigint, symbol, unique symbol, void,  *)
(* undefined, null, never, conditional, substitution, non-primitive; and   *)
(* no match ("") when no category matches.                                 *)
(***************************************************************************)
Category(need, kind) == [need |-> need, kind |-> kind]

Categories ==
  << Category({"Any"}, "any"),
     Category({"Unknown"}, "unknown"),
     Category({"StringLiteral"}, "literal"),
     Category({"NumberLiteral"}, "literal"),
     Category({"BooleanLiteral"}, "literal"),
     Category({"EnumLiteral", "Union"}, "enumLiteral"),
     Category({"Enum", "Union"}, "enum"),
     Category({"BigIntLiteral"}, "bigintLiteral"),
     Category({"String"}, "string"),
     Category({"Boolean"}, "boolean"),
     Category({"Number"}, "number"),
     Category({"BigInt"}, "bigint"),
     Category({"ESSymbol"}, "esSymbol"),
     Category({"UniqueESSymbol"}, "uniqueEsSymbol"),
     Category({"Void"}, "void"),
     Category({"Undefined"}, "undefined"),
     Category({"Null"}, "null"),
     Category({"Never"}, "never"),
     Category({"Conditional"}, "conditional"),
     Category({"Substitution"}, "substitution"),
     Category({"NonPrimitive"}, "nonPrimitive") >>

Matching(p) == {i \in 1..Len(Categories) : Categories[i].need \subseteq p}

First(S) == CHOOSE i \in S : \A j \in S : i <= j

C10_ClassifierPriority ==
  basic = IF Matching(flags) = {} THEN ""
          ELSE Categories[First(Matching(flags))].kind

\* A type of which categories of different kinds hold together was classified.
C10_Witness ==
  /\ Cardinality({Categories[i].kind : i \in Matching(flags)}) >= 2
  /\ basic = Categories[First(Matching(flags))].kind


(***************************************************************************)
(* C11  Order preservation: the node emitted for a union or a tuple (here  *)
(* as the value of an exported variable declared with that type) lists as  *)
(* many types as the oracle lists members or elements, and its i-th type   *)
(* is the classification of the i-th member or element.                    *)
(***************************************************************************)
IsUnion(t) == "Union" \in Ty[t].preds /\ BasicKind(Ty[t].preds) = ""

IsTuple(t) == "Tuple" \in Ty[t].preds /\ BasicKind(Ty[t].preds) = ""

\* The oracle's list: type.types of a union, type.typeArguments of a tuple.
Listed(t) == IF IsTuple(t) THEN Ty[t].typeArguments ELSE Ty[t].types

\* node is what the walk answers for the oracle type t, a basic type or a
\* named type.
ClassificationOf(node, t) ==
  IF BasicKind(Ty[t].preds) # "" THEN node.kind = BasicKind(Ty[t].preds)
  ELSE node.kind = "ref" /\ node.refName = Ty[t].sym

\* The exported variables in the registry that are declared with a union or
\* a tuple type.
ListVariables ==
  {v \in DOMAIN refs \cap DOMAIN ExportedVariables :
     /\ refs[v].kind = "const"
     /\ IsUnion(ExportedVariables[v]) \/ IsTuple(ExportedVariables[v])}

C11_OrderPreserved ==
  \A v \in ListVariables :
    LET t == ExportedVariables[v]
        node == refs[v].kids[1]
    IN /\ node.kind = IF IsTuple(t) THEN "tuple" ELSE "union"
       /\ Len(node.types) = Len(Listed(t))
       /\ \A i \in 1..Len(Listed(t)) : ClassificationOf(node.types[i], Listed(t)[i])

C11_Witness ==
  /\ {"u", "v"} \subseteq ListVariables
  /\ Len(refs["u"].kids[1].types) = 3
  /\ Len(refs["v"].kids[1].types) = 3


(***************************************************************************)
(* C12  Truncation bound: every call of normalizeTypeParameters (one per   *)
(* ref built by includeRef or makeAliasRef) cuts the supplied arguments to *)
(* min(supplied, type parameters the target declares) before it trims the  *)
(* defaults, whatever the registry holds for the target at that time.      *)
(***************************************************************************)
Min(a, b) == IF a <= b THEN a ELSE b

C12_TruncationBound ==
  \A n \in last.norm : n.cut = Min(n.supplied, n.nparams)


(***************************************************************************)
(* C13  Transitive inherited-member exclusion: for every registered        *)
(* interface or class with heritage, getAllPropIds of its extends and      *)
(* implements edges holds the id of every member of every type reachable   *)
(* through heritage, none of these ids is among the props of the node, and *)
(* each own member is among them exactly once.                             *)
(***************************************************************************)
RECURSIVE Ancestors(_)
Ancestors(t) == BaseTypes(t) \cup UNION {Ancestors(b) : b \in BaseTypes(t)}

InheritedIds(t) == UNION {PropIds(Ty[b].props) : b \in Ancestors(t)}

Occurrences(props, id) == Cardinality({i \in 1..Len(props) : props[i].id = id})

C13_TransitiveExclusion ==
  \A k \in DOMAIN refs \cap TypeIds :
    (refs[k].kind \in {"interface", "class"} /\ Ty[k].heritage # <<>>) =>
      /\ InheritedIds(k) \subseteq getAllPropIds(refs, refs[k].exts \o refs[k].impls)
      /\ PropIds(refs[k].props) \cap InheritedIds(k) = {}
      /\ \A id \in PropIds(Ty[k].props) \ InheritedIds(k) :
           Occurrences(refs[k].props, id) = 1


(***************************************************************************)
(* C14  Failure leaves an unfilled placeholder.  When an invocation raises *)
(* while makeRef or makeAliasRef builds the body of N, the entries filled  *)
(* before are unchanged and N is mapped to its placeholder; and whatever   *)
(* entry point is invoked later on the same registry, N stays mapped to    *)
(* its placeholder and its body is not built again.                        *)
(***************************************************************************)
\* The names whose body makeRef or makeAliasRef was building when the last
\* invocation ended.
Unfinished(l) ==
  {N \in Range(l.building) :
     \E e \in l.ev : e.name = N /\ e.site \in {"makeRef", "makeAliasRef"}}

BuildsOf(b, N) == IF N \in DOMAIN b THEN b[N] ELSE 0

C14_FailureLeavesPlaceholder ==
  [][ /\ last'.err = "throw" =>
           /\ \A N \in Unfinished(last') :
                N \in DOMAIN refs' /\ refs'[N] = Placeholder(N)
           /\ \A k \in DOMAIN refs :
                refs[k] # Placeholder(k) => k \in DOMAIN refs' /\ refs'[k] = refs[k]
      /\ \A N \in DOMAIN refs :
           refs[N] = Placeholder(N) =>
             /\ N \in DOMAIN refs' /\ refs'[N] = Placeholder(N)
             /\ BuildsOf(builds', N) = BuildsOf(builds, N) ]_vars

=============================================================================
